---- MODULE Spec2Model ----
(***************************************************************************)
(* Model of src/download_folder.py: the recursive Google Drive folder      *)
(* mirror (download_folder, download_folder_contents, download_file) as   *)
(* driven by main.  The remote tree, the order of every listing and every  *)
(* failure of a remote call or of a local file operation are chosen        *)
(* nondeterministically.                                                   *)
(***************************************************************************)
EXTENDS Integers, Sequences, FiniteSets, TLC

\* ---- bounds ----
MaxNodes  == 3      \* remote nodes below the root
NumNames  == 2      \* distinct item names
MaxChunks == 2      \* chunks of the longest remote file
MaxFaults == 1      \* failures injected by the environment in one behaviour

\* ---- the remote side ----
ROOT     == 0       \* the folder id given to download_folder
RootName == 0       \* folder['name'] of the root
GAppsPrefix == "application/vnd.google-apps."
FolderMime  == <<GAppsPrefix, "folder">>
DocMime     == <<GAppsPrefix, "document">>
PlainMime   == <<"text/", "plain">>
MimeTypes   == {FolderMime, DocMime, PlainMime}

VARIABLES
  remote,   \* the remote tree: node id -> [mimeType, name, parent]
  fs,       \* the local disk: [dirs: set of paths, files: path -> bytes]
  pc,       \* "idle", "walking", "done" (download_folder returned), "raised"
  stack,    \* call stack of download_folder_contents, innermost first
  status,   \* per node, the notice this run printed for it
  gets,     \* the nodes download_file fetched the metadata of, this run
  before,   \* whether this is the second invocation of main, and the disk
            \* and the outcome the first one left
  faults    \* failures injected so far

vars == <<remote, fs, pc, stack, status, gets, before, faults>>

Nodes == DOMAIN remote

\* the folder type is misspelt in the comparison
IsFolderMime_Typo(m) == m = <<GAppsPrefix, "folders">>
\* mime_type == 'application/vnd.google-apps.folder'
IsFolderMime(m) == m = FolderMime
\* the type is compared with the folder type instead of with the prefix
StartsWithGApps_FolderOnly(m) == m = FolderMime
\* mime_type.startswith('application/vnd.google-apps.')
StartsWithGApps(m) == m[1] = GAppsPrefix

\* the three kinds of remote node
IsFolder(n)  == remote[n].mimeType = FolderMime
IsVirtual(n) == remote[n].mimeType = DocMime
IsFile(n)    == remote[n].mimeType = PlainMime

\* q = "'<folder_id>' in parents and trashed=false"
Children(f) == {n \in Nodes : remote[n].parent = f}

\* the number of next_chunk calls the file of node n takes: 1..MaxChunks
Chunks(n) == 1 + (n % MaxChunks)
\* the bytes next_chunk delivers for node n, chunk by chunk
Content(n) == [i \in 1..Chunks(n) |-> <<n, i>>]

RootPath == <<RootName>>

\* os.path.join(local_path, item_name)
Join(path, nm) == Append(path, nm)

RECURSIVE LocalPath(_)
LocalPath(n) ==
  IF n = ROOT THEN RootPath
  ELSE Join(LocalPath(remote[n].parent), remote[n].name)

Perms(S) ==
  {s \in [1..Cardinality(S) -> S] : \A i, j \in DOMAIN s : i # j => s[i] # s[j]}

NodeRecords ==
  [mimeType : MimeTypes, name : 1..NumNames, parent : 0..(MaxNodes - 1)]

\* node r may be added to tree t: only a folder has children
WellFormed(t, r) ==
  /\ r.parent <= Len(t)
  /\ r.parent # ROOT => t[r.parent].mimeType = FolderMime

\* ids and names are opaque: one tree per renaming of ids and of names
Canonical(t, r) ==
  /\ t # << >> => t[Len(t)].parent <= r.parent
  /\ r.name = 1 \/ \E m \in 1..Len(t) : t[m].name >= r.name - 1

RECURSIVE TreesOf(_)
TreesOf(k) ==
  IF k = 0 THEN {<< >>}
  ELSE UNION { {Append(t, r) : r \in {x \in NodeRecords :
                                        WellFormed(t, x) /\ Canonical(t, x)}} :
               t \in TreesOf(k - 1) }

RemoteTrees == UNION {TreesOf(k) : k \in 0..MaxNodes}

NoStatus == [n \in Nodes \cup {ROOT} |-> "none"]

EmptyDisk == [dirs |-> {<< >>}, files |-> << >>]

Init ==
  /\ remote \in RemoteTrees
  /\ fs = EmptyDisk
  /\ pc = "idle"
  /\ stack = << >>
  /\ status = [n \in DOMAIN remote \cup {ROOT} |-> "none"]
  /\ gets = {}
  /\ before = [rerun |-> FALSE, fs |-> EmptyDisk, clean |-> FALSE]
  /\ faults = 0

\* ---- the local disk ----
IsDir(p)     == p \in fs.dirs
IsRegular(p) == p \in DOMAIN fs.files

\* os.makedirs(p, exist_ok=True) with an existing parent: the disk afterwards
Makedirs(p) == [fs EXCEPT !.dirs = @ \cup {p}]

\* exist_ok=False: an existing directory raises too
MakedirsExists_NoExistOk(p) == IsRegular(p) \/ IsDir(p)
\* os.makedirs(p, exist_ok=True) raises FileExistsError
MakedirsExists(p) == IsRegular(p)

\* mode 'ab': the bytes are appended to what the file held
WriteFile_Append(p, bytes) ==
  [fs EXCEPT !.files = [q \in DOMAIN fs.files \cup {p} |->
                          IF q # p THEN fs.files[q]
                          ELSE IF IsRegular(p) THEN fs.files[p] \o bytes ELSE bytes]]
\* open(p, 'wb') followed by the chunks written before the handle is closed
WriteFile(p, bytes) ==
  [fs EXCEPT !.files = [q \in DOMAIN fs.files \cup {p} |->
                          IF q = p THEN bytes ELSE fs.files[q]]]
\* open(p, 'wb') raises IsADirectoryError
OpenIsDir(p) == IsDir(p)

\* a remote call or a local file operation fails for a reason of its own
CanFault == faults < MaxFaults
Fault    == faults' = faults + 1

\* print(...) of a notice about node n
Report(n, what) == status' = [status EXCEPT ![n] = what]
\* an exception leaves download_folder, unwinding every frame; main prints it
Raise == pc' = "raised" /\ stack' = << >>

\* ---- download_folder ----
Top == stack[1]
Frame(f, p, order) == [folder |-> f, path |-> p, items |-> order]

\* a for loop that is exhausted returns to its caller, and so on upwards
RECURSIVE Unwind(_)
Unwind(st) ==
  IF st = << >> THEN << >>
  ELSE IF st[1].items = << >> THEN Unwind(Tail(st))
  ELSE st

\* control goes on at the innermost unfinished loop; with none left,
\* download_folder returns local_folder_path
Continue(st) ==
  /\ stack' = Unwind(st)
  /\ pc' = IF Unwind(st) = << >> THEN "done" ELSE "walking"

\* the results of files().list(...): the children, in whatever order (the
\* one page the call returns is taken to hold every child)
Listings(f) == Perms(Children(f))

\* the local root is made before the root is resolved
DownloadFolderGetFails_AfterMakedirs ==
  /\ pc = "idle" /\ CanFault /\ Fault
  /\ Raise
  /\ Report(ROOT, "getFailed")
  /\ fs' = Makedirs(RootPath)
  /\ UNCHANGED <<remote, gets, before>>
\* files().get(fileId=folder_id) raises
DownloadFolderGetFails ==
  /\ pc = "idle" /\ CanFault /\ Fault
  /\ Raise
  /\ Report(ROOT, "getFailed")
  /\ UNCHANGED <<remote, fs, gets, before>>

\* the root resolves, os.makedirs raises
DownloadFolderMakedirsFails ==
  /\ pc = "idle"
  /\ \/ MakedirsExists(RootPath) /\ UNCHANGED faults
     \/ ~MakedirsExists(RootPath) /\ CanFault /\ Fault
  /\ Raise
  /\ Report(ROOT, IF MakedirsExists(RootPath) THEN "exists" ELSE "mkdirFailed")
  /\ UNCHANGED <<remote, fs, gets, before>>

\* the root resolves, the local root is made, the listing of the root raises
DownloadFolderListFails ==
  /\ pc = "idle"
  /\ ~MakedirsExists(RootPath)
  /\ CanFault /\ Fault
  /\ fs' = Makedirs(RootPath)
  /\ Raise
  /\ Report(ROOT, "listFailed")
  /\ UNCHANGED <<remote, gets, before>>

\* the root resolves, the local root is made, the root is listed and the
\* loop over its children begins
DownloadFolderEnter ==
  /\ pc = "idle"
  /\ ~MakedirsExists(RootPath)
  /\ fs' = Makedirs(RootPath)
  /\ \E order \in Listings(ROOT) : Continue(<<Frame(ROOT, RootPath, order)>>)
  /\ Report(ROOT, "created")
  /\ UNCHANGED <<remote, gets, before, faults>>

\* ---- download_folder_contents ----
HasItem == pc = "walking"
Item    == Head(Top.items)
\* every item is written into the local root
ItemPath_Flat == Join(RootPath, remote[Item].name)
\* os.path.join(local_path, item_name)
ItemPath == Join(Top.path, remote[Item].name)
\* the for loop moves on to the next item
Advance == [stack EXCEPT ![1] = [@ EXCEPT !.items = Tail(@)]]

\* a folder item whose os.makedirs raises: nothing catches it below main
SubfolderMakedirsFails ==
  /\ HasItem /\ IsFolderMime(remote[Item].mimeType)
  /\ \/ MakedirsExists(ItemPath) /\ UNCHANGED faults
     \/ ~MakedirsExists(ItemPath) /\ CanFault /\ Fault
  /\ Raise
  /\ Report(Item, IF MakedirsExists(ItemPath) THEN "exists" ELSE "mkdirFailed")
  /\ UNCHANGED <<remote, fs, gets, before>>

\* a folder item: its directory is made, the recursive call's
\* files().list(...).execute() raises: nothing catches it below main
SubfolderListFails ==
  /\ HasItem /\ IsFolderMime(remote[Item].mimeType)
  /\ ~MakedirsExists(ItemPath)
  /\ CanFault /\ Fault
  /\ fs' = Makedirs(ItemPath)
  /\ Raise
  /\ Report(Item, "listFailed")
  /\ UNCHANGED <<remote, gets, before>>

\* a folder item: makedirs, print, recurse into its listing
EnterSubfolder ==
  /\ HasItem /\ IsFolderMime(remote[Item].mimeType)
  /\ ~MakedirsExists(ItemPath)
  /\ fs' = Makedirs(ItemPath)
  /\ \E order \in Listings(Item) :
       Continue(<<Frame(Item, ItemPath, order)>> \o Advance)
  /\ Report(Item, "created")
  /\ UNCHANGED <<remote, gets, before, faults>>

\* ---- download_file ----
\* the else branch of the walker: everything that is no folder
IsFileItem == HasItem /\ ~IsFolderMime(remote[Item].mimeType)

\* files().get(fileId=file_id).execute()
GetMetadata == gets' = gets \cup {Item}

\* no try/except: the exception leaves download_file
ReportAndReraise(what) ==
  /\ Report(Item, what)
  /\ Raise
\* except Exception as e: print(...), and download_file returns
ReportAndReturn(what) ==
  /\ Report(Item, what)
  /\ Continue(Advance)

\* the metadata fetch raises
DownloadFileMetadataFails ==
  /\ IsFileItem /\ CanFault /\ Fault
  /\ GetMetadata
  /\ ReportAndReturn("metadataFailed")
  /\ UNCHANGED <<remote, fs, before>>

\* the walker itself skips the item, without calling download_file
DownloadFileSkips_InWalker ==
  /\ IsFileItem /\ StartsWithGApps(remote[Item].mimeType)
  /\ Report(Item, "skipped")
  /\ Continue(Advance)
  /\ UNCHANGED <<remote, fs, gets, before, faults>>
\* a Google Workspace type: print the notice and return
DownloadFileSkips ==
  /\ IsFileItem /\ StartsWithGApps(remote[Item].mimeType)
  /\ GetMetadata
  /\ Report(Item, "skipped")
  /\ Continue(Advance)
  /\ UNCHANGED <<remote, fs, before, faults>>

\* open(file_path, 'wb') raises
DownloadFileOpenFails ==
  /\ IsFileItem /\ ~StartsWithGApps(remote[Item].mimeType)
  /\ \/ OpenIsDir(ItemPath) /\ UNCHANGED faults
     \/ ~OpenIsDir(ItemPath) /\ CanFault /\ Fault
  /\ GetMetadata
  /\ ReportAndReturn("openFailed")
  /\ UNCHANGED <<remote, fs, before>>

\* the file is removed when its transfer fails
DownloadFileTransferFails_Unlink ==
  /\ IsFileItem /\ ~StartsWithGApps(remote[Item].mimeType)
  /\ ~OpenIsDir(ItemPath)
  /\ CanFault /\ Fault
  /\ GetMetadata
  /\ fs' = [fs EXCEPT !.files = [q \in DOMAIN fs.files \ {ItemPath} |-> fs.files[q]]]
  /\ ReportAndReturn("transferFailed")
  /\ UNCHANGED <<remote, before>>
\* get_media or next_chunk raises, after the chunks already written
DownloadFileTransferFails ==
  /\ IsFileItem /\ ~StartsWithGApps(remote[Item].mimeType)
  /\ ~OpenIsDir(ItemPath)
  /\ CanFault /\ Fault
  /\ GetMetadata
  /\ \E written \in 0..(Chunks(Item) - 1) :
       fs' = WriteFile(ItemPath, SubSeq(Content(Item), 1, written))
  /\ ReportAndReturn("transferFailed")
  /\ UNCHANGED <<remote, before>>

\* every next_chunk succeeds until done is True
DownloadFileCompletes ==
  /\ IsFileItem /\ ~StartsWithGApps(remote[Item].mimeType)
  /\ ~OpenIsDir(ItemPath)
  /\ GetMetadata
  /\ fs' = WriteFile(ItemPath, Content(Item))
  /\ Report(Item, "downloaded")
  /\ Continue(Advance)
  /\ UNCHANGED <<remote, before, faults>>

\* ---- main ----
Failures == {"getFailed", "mkdirFailed", "exists", "listFailed",
             "metadataFailed", "openFailed", "transferFailed"}
\* nothing has failed in this run
Clean == \A n \in DOMAIN status : status[n] \notin Failures

\* download_folder has returned, and main is run a second time against the
\* same remote tree and the destination the first run populated
MainAgain ==
  /\ pc = "done" /\ ~before.rerun
  /\ pc' = "idle"
  /\ stack' = << >>
  /\ status' = NoStatus
  /\ gets' = {}
  /\ before' = [rerun |-> TRUE, fs |-> fs, clean |-> Clean]
  /\ UNCHANGED <<remote, fs, faults>>

Next ==
  \/ DownloadFolderGetFails
  \/ DownloadFolderMakedirsFails
  \/ DownloadFolderListFails
  \/ DownloadFolderEnter
  \/ SubfolderMakedirsFails
  \/ SubfolderListFails
  \/ EnterSubfolder
  \/ DownloadFileMetadataFails
  \/ DownloadFileSkips
  \/ DownloadFileOpenFails
  \/ DownloadFileTransferFails
  \/ DownloadFileCompletes
  \/ MainAgain

Spec == Init /\ [][Next]_vars

\* ======================= the claims =======================
Returned   == pc = "done"
Raised     == pc = "raised"
Folders    == {n \in Nodes : IsFolder(n)}
Files      == {n \in Nodes : IsFile(n)}
Virtuals   == {n \in Nodes : IsVirtual(n)}
FolderPaths == {LocalPath(n) : n \in Folders}
Siblings(x, y) == x # y /\ remote[x].parent = remote[y].parent
DownloadFailures == {"metadataFailed", "openFailed", "transferFailed"}
IsPrefix(s, t) == Len(s) <= Len(t) /\ s = SubSeq(t, 1, Len(s))
\* another folder or regular file is mapped to the local path of n
Shared(n) == \E m \in Folders \cup Files : m # n /\ LocalPath(m) = LocalPath(n)
UniquePaths == \A n \in Folders \cup Files : ~Shared(n)
\* the local tree that mirrors the remote one
MirrorDirs == {<< >>, RootPath} \cup FolderPaths
Mirror ==
  [dirs  |-> MirrorDirs,
   files |-> [p \in {LocalPath(n) : n \in Files} |->
                Content(CHOOSE n \in Files : LocalPath(n) = p)]]

\* C1: a failure at a descendant of the root (listing a subfolder, making a
\* subfolder's directory, fetching or streaming a file) never leaves
\* download_folder: whenever download_folder raises, the failure was at the root.
C1_DescendantFailuresSwallowed ==
  Raised => status[ROOT] \in {"getFailed", "mkdirFailed", "exists", "listFailed"}

C5_VirtualSkipIsNeutral ==
  /\ [][(HasItem /\ IsVirtual(Item))
          => (fs' = fs /\ pc' # "raised"
              /\ stack' = Unwind([stack EXCEPT ![1].items = Tail(@)]))]_vars
  /\ [](Returned => /\ fs.dirs = MirrorDirs
                    /\ DOMAIN fs.files \subseteq {LocalPath(n) : n \in Files})
C5_Witness ==
  /\ Returned
  /\ \E v, x, y \in Nodes :
       /\ Siblings(v, x) /\ Siblings(v, y) /\ x # y
       /\ status[v] = "skipped"
       /\ status[x] = "downloaded" /\ status[y] = "created"

C8_RootFailureNoEffect ==
  status[ROOT] = "getFailed" =>
    /\ Raised
    /\ fs = before.fs
    /\ gets = {}
    /\ \A n \in Nodes : status[n] = "none"
C8_Witness ==
  /\ Raised /\ status[ROOT] = "getFailed" /\ before.rerun
  /\ DOMAIN fs.files # {}

C10_Original ==
  Returned =>
    /\ \A p \in DOMAIN fs.files :
         \E n \in Files : LocalPath(n) = p /\ fs.files[p] = Content(n)
    /\ \A n \in Files : (status[n] \in DownloadFailures /\ ~Shared(n))
                           => LocalPath(n) \notin DOMAIN fs.files
\* C10 amended: a failed metadata fetch or open leaves the disk as it was; a
\* failed transfer leaves at the file's path a strict prefix of its bytes,
\* possibly empty, in place of whatever the path held, and nothing else
\* changes; a completed transfer leaves all its bytes.  Hence every local
\* file holds a prefix of the bytes of a regular remote file at its path.
C10_FailedTransferTruncates ==
  /\ [][IsFileItem =>
          LET n == Item
              p == Join(Top.path, remote[n].name)
          IN  /\ status'[n] \in {"metadataFailed", "openFailed", "skipped"} => fs' = fs
              /\ status'[n] \in {"transferFailed", "downloaded"} =>
                   /\ p \in DOMAIN fs'.files
                   /\ fs'.dirs = fs.dirs
                   /\ DOMAIN fs'.files = DOMAIN fs.files \cup {p}
                   /\ \A q \in DOMAIN fs.files \ {p} : fs'.files[q] = fs.files[q]
              /\ status'[n] = "transferFailed" =>
                   /\ IsPrefix(fs'.files[p], Content(n))
                   /\ Len(fs'.files[p]) < Len(Content(n))
              /\ status'[n] = "downloaded" => fs'.files[p] = Content(n)]_vars
  /\ [](\A p \in DOMAIN fs.files :
          \E n \in Files : LocalPath(n) = p /\ IsPrefix(fs.files[p], Content(n)))
C10_Witness ==
  /\ Returned /\ before.rerun
  /\ \E n \in Files :
       /\ status[n] = "transferFailed" /\ ~Shared(n)
       /\ LocalPath(n) \in DOMAIN before.fs.files
       /\ before.fs.files[LocalPath(n)] = Content(n)
       /\ Len(fs.files[LocalPath(n)]) < Len(Content(n))
====
